---- MODULE Spec2Model ----
(***************************************************************************)
(* Model of power-bi-updater (src/src/main.rs): the token lifecycle        *)
(* (read cache / validate / acquire / persist) followed by the batch       *)
(* refresh dispatch over the registry of dataset groups.                   *)
(*                                                                         *)
(* Strings that the program parses (expires_on) are sequences of           *)
(* one-character strings.  64-bit integers do not fit TLC's integers, so   *)
(* an integer is a record [neg, mag] whose mag is the sequence of decimal  *)
(* digits of its magnitude without leading zeros (zero is the empty        *)
(* sequence, never negative).                                              *)
(***************************************************************************)
EXTENDS Integers, Sequences, FiniteSets, TLC

\* ------------------------------------------------------------------------
\* Bounds of the model
\* ------------------------------------------------------------------------
MaxLen == 2          \* longest enumerated expires_on text
MaxEntries == 2      \* longest dataset.json entry list
MaxPrompts == 2      \* most unknown keys typed at "ID Empresa"

\* ------------------------------------------------------------------------
\* Decimal integers of any width
\* ------------------------------------------------------------------------
Digits == {"0", "1", "2", "3", "4", "5", "6", "7", "8", "9"}

DigitVal(c) ==
    CASE c = "0" -> 0 [] c = "1" -> 1 [] c = "2" -> 2 [] c = "3" -> 3
      [] c = "4" -> 4 [] c = "5" -> 5 [] c = "6" -> 6 [] c = "7" -> 7
      [] c = "8" -> 8 [] c = "9" -> 9

DigitChar == <<"0", "1", "2", "3", "4", "5", "6", "7", "8", "9">>

\* the text of a digit sequence
CharsOf(mag) == [i \in 1..Len(mag) |-> DigitChar[mag[i] + 1]]

RECURSIVE StripZeros(_)
StripZeros(mag) ==
    IF mag # <<>> /\ Head(mag) = 0 THEN StripZeros(Tail(mag)) ELSE mag

MkNum(neg, mag) ==
    LET m == StripZeros(mag) IN [neg |-> neg /\ m # <<>>, mag |-> m]

RECURSIVE NatDigits(_)
NatDigits(n) == IF n = 0 THEN <<>> ELSE Append(NatDigits(n \div 10), n % 10)

NumOfNat(n) == [neg |-> FALSE, mag |-> NatDigits(n)]

Zero == [neg |-> FALSE, mag |-> <<>>]

\* a < b on magnitudes without leading zeros
MagLess(a, b) ==
    \/ Len(a) < Len(b)
    \/ /\ Len(a) = Len(b)
       /\ \E i \in 1..Len(a) :
            /\ a[i] < b[i]
            /\ \A j \in 1..(i - 1) : a[j] = b[j]

\* x < y on integers
NumLess(x, y) ==
    CASE x.neg /\ ~y.neg -> TRUE
      [] ~x.neg /\ y.neg -> FALSE
      [] ~x.neg /\ ~y.neg -> MagLess(x.mag, y.mag)
      [] x.neg /\ y.neg -> MagLess(y.mag, x.mag)

NumLeq(x, y) == ~NumLess(y, x)

\* i64::MAX = 9223372036854775807 and |i64::MIN| = 9223372036854775808
I64MaxMag == <<9,2,2,3,3,7,2,0,3,6,8,5,4,7,7,5,8,0,7>>
I64MinMag == <<9,2,2,3,3,7,2,0,3,6,8,5,4,7,7,5,8,0,8>>

\* the seconds chrono's DateTime<Utc> can represent: from
\* -262143-01-01T00:00:00 to +262142-12-31T23:59:59
ChronoMaxSecs == [neg |-> FALSE, mag |-> <<8,2,1,0,2,6,6,8,7,6,7,9,9>>]
ChronoMinSecs == [neg |-> TRUE, mag |-> <<8,3,3,4,6,0,1,2,2,8,8,0,0>>]

\* ------------------------------------------------------------------------
\* str::trim and str::parse::<i64>
\* ------------------------------------------------------------------------
IsWhite(c) == c = " "

RECURSIVE TrimStart(_)
TrimStart(s) == IF s # <<>> /\ IsWhite(Head(s)) THEN TrimStart(Tail(s)) ELSE s

RECURSIVE TrimEnd(_)
TrimEnd(s) ==
    IF s # <<>> /\ IsWhite(s[Len(s)])
    THEN TrimEnd(SubSeq(s, 1, Len(s) - 1))
    ELSE s

Trim(s) == TrimEnd(TrimStart(s))

\* i64::from_str: an optional sign, then one or more decimal digits whose
\* value fits 64 bits; anything else is an error
ParseI64(s) ==
    LET signed == s # <<>> /\ Head(s) \in {"+", "-"}
        neg == s # <<>> /\ Head(s) = "-"
        body == IF signed THEN Tail(s) ELSE s
        mag == StripZeros([i \in 1..Len(body) |-> DigitVal(body[i])])
    IN  IF body = <<>> \/ \E i \in 1..Len(body) : body[i] \notin Digits
        THEN [ok |-> FALSE, val |-> Zero]
        ELSE IF neg /\ MagLess(I64MinMag, mag)
        THEN [ok |-> FALSE, val |-> Zero]
        ELSE IF ~neg /\ MagLess(I64MaxMag, mag)
        THEN [ok |-> FALSE, val |-> Zero]
        ELSE [ok |-> TRUE, val |-> MkNum(neg, mag)]

\* Result::unwrap_or_default on the parse: zero on error
UnwrapOrFarFuture(r) == IF r.ok THEN r.val ELSE ChronoMaxSecs
UnwrapOrDefault(r) == IF r.ok THEN r.val ELSE Zero

\* DateTime::from_timestamp(secs, 0): None outside chrono's range
FromTimestamp(secs) ==
    IF NumLess(secs, ChronoMinSecs) \/ NumLess(ChronoMaxSecs, secs)
    THEN [some |-> FALSE, secs |-> Zero]
    ELSE [some |-> TRUE, secs |-> secs]

\* validate_token: "true" / "false", or "panic" when the unwrap of
\* from_timestamp fails
validate_token(tok, now) ==
    LET expire_token == UnwrapOrDefault(ParseI64(Trim(tok.expires_on)))
        expire_token_date == FromTimestamp(expire_token)
    IN  IF ~expire_token_date.some THEN "panic"
        ELSE IF NumLess(now, expire_token_date.secs) THEN "true"
        ELSE "false"

\* ------------------------------------------------------------------------
\* TokenResponse and its JSON form
\* ------------------------------------------------------------------------
MkToken(tt, eo, at) == [token_type |-> tt, expires_on |-> eo, access_token |-> at]

\* impl Default for TokenResponse: three empty strings
TokenDefault == MkToken("", <<>>, "")

\* a JSON member: a string, a value of another type, or no member at all
JStr(v) == [t |-> "str", v |-> v]
JNum(v) == [t |-> "num", v |-> v]
JMissing(v) == [t |-> "missing", v |-> v]

\* a JSON text: not JSON at all, the literal null, or an object
JObject(tt, eo, at) ==
    [tag |-> "object", token_type |-> tt, expires_on |-> eo, access_token |-> at]
JNull == [tag |-> "null", token_type |-> JMissing(""),
          expires_on |-> JMissing(<<>>), access_token |-> JMissing("")]
JInvalid == [tag |-> "invalid", token_type |-> JMissing(""),
             expires_on |-> JMissing(<<>>), access_token |-> JMissing("")]

\* serde_json::to_string(&token): an object with the three string members
to_string(tok) ==
    JObject(JStr(tok.token_type), JStr(tok.expires_on), JStr(tok.access_token))

\* serde_json::from_str::<TokenResponse>: every member present, as a string
from_str_token(j) ==
    IF /\ j.tag = "object"
       /\ j.token_type.t = "str"
       /\ j.expires_on.t = "str"
       /\ j.access_token.t = "str"
    THEN [ok |-> TRUE,
          rec |-> MkToken(j.token_type.v, j.expires_on.v, j.access_token.v)]
    ELSE [ok |-> FALSE, rec |-> TokenDefault]

None == [some |-> FALSE, rec |-> TokenDefault]
Some(tok) == [some |-> TRUE, rec |-> tok]

\* serde_json::from_str::<Option<TokenResponse>>: null is Ok(None)
from_str_option(j) ==
    IF j.tag = "null" THEN [ok |-> TRUE, val |-> None]
    ELSE LET r == from_str_token(j)
         IN  IF r.ok THEN [ok |-> TRUE, val |-> Some(r.rec)]
             ELSE [ok |-> FALSE, val |-> None]

\* ------------------------------------------------------------------------
\* The .token file
\* ------------------------------------------------------------------------
FileAbsent == [kind |-> "absent", json |-> JInvalid]
FileUnreadable == [kind |-> "unreadable", json |-> JInvalid]
FileText(j) == [kind |-> "text", json |-> j]

\* read_token_file: open fails -> None; read fails -> None; otherwise the
\* deserialized Option, None on a deserialization error
read_token_file_default(file) == Some(TokenDefault)
read_token_file(file) ==
    IF file.kind = "absent" THEN None
    ELSE IF file.kind = "unreadable" THEN None
    ELSE LET r == from_str_option(file.json)
         IN  IF r.ok THEN r.val ELSE None

\* export_token: File::create then write_all of the serialized token.
\* fs is what the file system does: "ok", "create_fail" (nothing touched)
\* or "write_fail" (the file was truncated by create, the text not written)
export_token_skip(file, tok, fs) == [file |-> file, crash |-> "none"]
export_token(file, tok, fs) ==
    CASE fs = "ok" -> [file |-> FileText(to_string(tok)), crash |-> "none"]
      [] fs = "create_fail" -> [file |-> file, crash |-> "export_create"]
      [] fs = "write_fail" -> [file |-> FileText(JInvalid), crash |-> "export_write"]

FsOutcomes == {"ok", "create_fail", "write_fail"}

\* ------------------------------------------------------------------------
\* HTTP
\* ------------------------------------------------------------------------
\* StatusCode::is_success: 200..=299
is_success(status) == status >= 200 /\ status <= 299

\* acquire_new_token on a response of the identity endpoint.  resp.sent is
\* FALSE when send() failed; resp.readable is FALSE when the body cannot be
\* read.  The result is Ok(record), Err(text) or a panic of an expect.
acquire_new_token(resp) ==
    IF ~resp.sent
    THEN [kind |-> "panic", rec |-> TokenDefault, text |-> JInvalid,
          crash |-> "acquire_send"]
    ELSE IF is_success(resp.status)
    THEN LET r == IF resp.readable THEN from_str_token(resp.json)
                  ELSE [ok |-> FALSE, rec |-> TokenDefault]
         IN  IF r.ok
             THEN [kind |-> "ok", rec |-> r.rec, text |-> JInvalid,
                   crash |-> "none"]
             ELSE [kind |-> "panic", rec |-> TokenDefault, text |-> JInvalid,
                   crash |-> "acquire_json"]
    ELSE IF resp.readable
    THEN [kind |-> "err", rec |-> TokenDefault, text |-> resp.json,
          crash |-> "none"]
    ELSE [kind |-> "panic", rec |-> TokenDefault, text |-> JInvalid,
          crash |-> "acquire_text"]

\* send_request_update_dataset on a response of the refresh endpoint
send_request_update_dataset(resp) ==
    IF ~resp.sent THEN [kind |-> "panic", status |-> 0]
    ELSE IF is_success(resp.status) THEN [kind |-> "ok", status |-> resp.status]
    ELSE [kind |-> "err", status |-> resp.status]

\* ------------------------------------------------------------------------
\* Inputs
\* ------------------------------------------------------------------------
Alphabet == {"1", " ", "x"}

RECURSIVE TextsOfLen(_)
TextsOfLen(n) ==
    IF n = 0 THEN {<<>>}
    ELSE {Append(s, c) : s \in TextsOfLen(n - 1), c \in Alphabet}

\* texts at the edges of i64 and of chrono's range, minus signs, a leading
\* zero and a plus sign, and a timestamp of the year 2026
EdgeTexts ==
    { CharsOf(I64MaxMag),
      CharsOf(I64MinMag),
      <<"-">> \o CharsOf(I64MinMag),
      <<"-">> \o CharsOf(I64MaxMag) \o <<"0">>,
      CharsOf(ChronoMaxSecs.mag),
      CharsOf(<<8,2,1,0,2,6,6,8,7,6,8,0,0>>),
      <<"-">> \o CharsOf(ChronoMinSecs.mag),
      <<"-">> \o CharsOf(<<8,3,3,4,6,0,1,2,2,8,8,0,1>>),
      <<"-">>, <<"-", "1">>, <<"1", "-">>, <<"-", "-", "1">>,
      <<"+", "0", "9">>,
      CharsOf(<<1,7,9,0,0,0,3,6,0,0>>) }

ExpiresTexts == UNION {TextsOfLen(n) : n \in 0..MaxLen} \cup EdgeTexts

\* what Utc::now() reads at the check (never before the epoch)
Nows == {NumOfNat(0), NumOfNat(1), NumOfNat(1790000000)}

\* the .token file when the program starts
CachedTokens == {MkToken("Bearer", e, "cached") : e \in ExpiresTexts}

StartFiles ==
    {FileAbsent, FileUnreadable, FileText(JInvalid), FileText(JNull),
     FileText(JObject(JStr("Bearer"), JStr(<<"9">>), JMissing(""))),
     FileText(JObject(JStr("Bearer"), JNum(<<"9">>), JStr("cached")))}
    \cup {FileText(to_string(t)) : t \in CachedTokens}

\* what the identity endpoint answers
FreshTokens ==
    {MkToken("Bearer", CharsOf(<<1,7,9,0,0,0,3,6,0,0>>), "fresh"),
     MkToken("Bearer", <<>>, "fresh2")}

AcquirerResponses ==
    {[sent |-> FALSE, status |-> 0, readable |-> FALSE, json |-> JInvalid]}
    \cup {[sent |-> TRUE, status |-> 200, readable |-> TRUE, json |-> to_string(t)] :
            t \in FreshTokens}
    \cup {[sent |-> TRUE, status |-> 200, readable |-> r, json |-> j] :
            r \in BOOLEAN,
            j \in {JInvalid, JNull,
                   JObject(JStr("Bearer"), JMissing(<<>>), JStr("fresh"))}}
    \cup {[sent |-> TRUE, status |-> st, readable |-> r, json |-> j] :
            st \in {400, 500}, r \in BOOLEAN, j \in {JInvalid, JNull}}

\* what the refresh endpoint answers
RefreshResponses ==
    {[sent |-> FALSE, status |-> 0]}
    \cup {[sent |-> TRUE, status |-> st] : st \in {202, 404, 500}}

\* dataset.json: a sequence of GuidEntry
Ids == {1, 2}
GuidLists == {<<>>, <<"a", "b">>, <<"c">>}
GuidEntries == {[id |-> i, guid |-> g] : i \in Ids, g \in GuidLists}

RECURSIVE EntryLists(_)
EntryLists(n) ==
    IF n = 0 THEN {<<>>}
    ELSE {Append(s, e) : s \in EntryLists(n - 1), e \in GuidEntries}

Configs == UNION {EntryLists(n) : n \in 0..MaxEntries}

\* keys a user can type at "ID Empresa"
KeyInputs == Ids \cup {3}

\* HashMap::insert(id, guid): the value of an existing key is replaced
insert_if_absent(h, e) ==
    [k \in DOMAIN h \cup {e.id} |-> IF k \in DOMAIN h THEN h[k] ELSE e.guid]
insert(h, e) ==
    [k \in DOMAIN h \cup {e.id} |-> IF k = e.id THEN e.guid ELSE h[k]]

\* HashMap::insert for every entry, in file order
RECURSIVE InsertAll(_, _)
InsertAll(h, entries) ==
    IF entries = <<>> THEN h
    ELSE InsertAll(insert(h, Head(entries)), Tail(entries))

EmptyMap == [k \in {} |-> <<>>]

\* HashMap::get
get_or_empty(h, k) == [some |-> TRUE, value |-> IF k \in DOMAIN h THEN h[k] ELSE <<>>]
get(h, k) ==
    IF k \in DOMAIN h THEN [some |-> TRUE, value |-> h[k]]
    ELSE [some |-> FALSE, value |-> <<>>]

\* ------------------------------------------------------------------------
\* State
\* ------------------------------------------------------------------------
VARIABLES
    pc,                \* where main is
    hash_guid_entries, \* the registry: id -> sequence of guids
    tokenFile,         \* the .token file
    startFile,         \* the .token file as main found it
    cached,            \* what read_token_file returned
    now,               \* the clock reading of validate_token
    validated,         \* "none", or what validate_token did
    token,             \* main's token
    is_loaded_token,   \* main's is_loaded_token
    acquired,          \* "none", or what acquire_new_token did
    mode,              \* "none", "all", "single", "config", "quit"
    remaining,         \* keys the AllGroups iteration has not reached
    cur_key,           \* the group being iterated (-1: none)
    idx,               \* position of the member loop
    hash_map_key,      \* the key last typed (-1: none)
    inflight,          \* refresh requests sent and not answered
    calls,             \* every refresh request sent, in order
    out,               \* what was printed, in order
    after_pause,       \* exit status pending behind pause()
    exit_code,         \* -1 while running
    crash,             \* "none", or the expect/unwrap/panic that fired
    acquirerCalls,     \* exchanges with the identity endpoint
    cacheReads,        \* reads of .token
    cacheWrites,       \* File::create calls on .token
    acq_resp,          \* what the identity endpoint answered
    config,            \* the entries read_config_file returned
    cfg_pos,           \* position of the loop of line 219 in config
    prev               \* what the previous run of the program left

vars == <<pc, hash_guid_entries, tokenFile, startFile, cached, now, validated, token,
          is_loaded_token, acquired, mode, remaining, cur_key, idx,
          hash_map_key, inflight, calls, out, after_pause, exit_code, crash,
          acquirerCalls, cacheReads, cacheWrites, acq_resp, config, cfg_pos,
          prev>>

tokenVars == <<tokenFile, startFile, cached, now, validated, token, is_loaded_token,
               acquired, acquirerCalls, cacheReads, cacheWrites, acq_resp>>
runVars == <<config, cfg_pos, prev>>
loopVars == <<mode, remaining, cur_key, idx, hash_map_key, inflight, calls, out>>

NoAcquire == [kind |-> "none", rec |-> TokenDefault, text |-> JInvalid,
              crash |-> "none"]
NoResponse == [sent |-> FALSE, status |-> -1, readable |-> FALSE, json |-> JInvalid]
NoPrev == [runs |-> 0, hit |-> FALSE, token |-> TokenDefault, file |-> FileAbsent]

\* main's locals and the observers at line 224: token is the default
InitLocals ==
    /\ startFile = tokenFile
    /\ cached = None
    /\ now = Zero
    /\ validated = "none"
    /\ token = TokenDefault
    /\ is_loaded_token = FALSE
    /\ acquired = NoAcquire
    /\ mode = "none"
    /\ remaining = {}
    /\ cur_key = -1
    /\ idx = 0
    /\ hash_map_key = -1
    /\ inflight = {}
    /\ calls = <<>>
    /\ out = <<>>
    /\ after_pause = 0
    /\ exit_code = -1
    /\ crash = "none"
    /\ acquirerCalls = 0
    /\ cacheReads = 0
    /\ cacheWrites = 0
    /\ acq_resp = NoResponse
    /\ prev = NoPrev

\* main up to line 224: the registry is folded, the entry list is gone
Init ==
    /\ pc = "read_token"
    /\ \E cfg \in Configs : hash_guid_entries = InsertAll(EmptyMap, cfg)
    /\ tokenFile \in StartFiles
    /\ config = <<>>
    /\ cfg_pos = 0
    /\ InitLocals

\* a panic: the process ends with status 101
Panic(site) ==
    /\ pc' = "panicked"
    /\ crash' = site
    /\ exit_code' = 101

Exit(code) ==
    /\ pc' = "exited"
    /\ exit_code' = code
    /\ crash' = crash

\* pause() and then exit(code)
PauseThenExit(code) ==
    /\ pc' = "pause"
    /\ after_pause' = code
    /\ UNCHANGED <<exit_code, crash>>

Goto(l) ==
    /\ pc' = l
    /\ UNCHANGED <<after_pause, exit_code, crash>>

Event(ev, k, d, st) == [ev |-> ev, key |-> k, dataset |-> d, status |-> st]

NotFoundCount == Cardinality({i \in 1..Len(out) : out[i].ev = "notfound"})

\* ------------------------------------------------------------------------
\* Token phase (main, lines 226-264)
\* ------------------------------------------------------------------------
\* match read_token_file()
ReadToken ==
    /\ pc = "read_token"
    /\ cached' = read_token_file(tokenFile)
    /\ cacheReads' = cacheReads + 1
    /\ Goto(IF cached'.some THEN "validate" ELSE "need_token")
    /\ UNCHANGED <<hash_guid_entries, tokenFile, startFile, now, validated,
                   token, is_loaded_token, acquired, acquirerCalls, cacheWrites,
                   acq_resp>>
    /\ UNCHANGED loopVars
    /\ UNCHANGED runVars

\* if validate_token(&token_loaded) { token = token_loaded; ... }
ValidateCached ==
    /\ pc = "validate"
    /\ \E n \in Nows :
         LET r == validate_token(cached.rec, n)
         IN  /\ NumLeq(now, n)
             /\ now' = n
             /\ validated' = r
             /\ IF r = "panic"
                THEN /\ Panic("from_timestamp")
                     /\ UNCHANGED <<token, is_loaded_token, after_pause>>
                ELSE /\ Goto("need_token")
                     /\ token' = IF r = "true" THEN cached.rec ELSE token
                     /\ is_loaded_token' = (r = "true")
    /\ UNCHANGED <<hash_guid_entries, tokenFile, startFile, cached, acquired,
                   acquirerCalls, cacheReads, cacheWrites, acq_resp>>
    /\ UNCHANGED loopVars
    /\ UNCHANGED runVars

\* if is_loaded_token == false
NeedsAcquireAlways(loaded) == TRUE
NeedsAcquireNever(loaded) == FALSE
NeedsAcquire(loaded) == loaded = FALSE

\* line 241-242: the exchange with the identity endpoint starts, or is skipped
DecideAcquire ==
    /\ pc = "need_token"
    /\ IF NeedsAcquire(is_loaded_token)
       THEN /\ acquirerCalls' = acquirerCalls + 1
            /\ Goto("acquiring")
       ELSE /\ acquirerCalls' = acquirerCalls
            /\ Goto("check_loaded")
    /\ UNCHANGED <<hash_guid_entries, tokenFile, startFile, cached, now, validated,
                   token, is_loaded_token, acquired, cacheReads, cacheWrites,
                   acq_resp>>
    /\ UNCHANGED loopVars
    /\ UNCHANGED runVars

\* where the Err arm leaves main: pause() and exit(1), lines 251-255
AcquireErrFallThrough == "check_loaded"
AcquireErrArm == "pause"

\* match acquire_new_token(secrets).await { Ok => ..., Err => ... }
AcquireResponse ==
    /\ pc = "acquiring"
    /\ \E resp \in AcquirerResponses, fs \in FsOutcomes :
         LET r == acquire_new_token(resp)
             e == export_token(tokenFile, r.rec, fs)
         IN  /\ acquired' = r
             /\ acq_resp' = resp
             /\ CASE r.kind = "ok" ->
                       /\ token' = r.rec
                       /\ is_loaded_token' = TRUE
                       /\ tokenFile' = e.file
                       /\ cacheWrites' = cacheWrites + 1
                       /\ IF e.crash # "none"
                          THEN Panic(e.crash) /\ UNCHANGED after_pause
                          ELSE Goto("check_loaded")
                  [] r.kind = "err" ->
                       /\ pc' = AcquireErrArm
                       /\ after_pause' = 1
                       /\ UNCHANGED <<exit_code, crash>>
                       /\ UNCHANGED <<token, is_loaded_token, tokenFile, cacheWrites>>
                  [] r.kind = "panic" ->
                       /\ Panic(r.crash)
                       /\ UNCHANGED <<token, is_loaded_token, tokenFile,
                                      cacheWrites, after_pause>>
    /\ UNCHANGED <<hash_guid_entries, startFile, cached, now, validated,
                   acquirerCalls, cacheReads>>
    /\ UNCHANGED loopVars
    /\ UNCHANGED runVars

\* if is_loaded_token == false { ...; exit(500) }
CheckLoaded ==
    /\ pc = "check_loaded"
    /\ IF is_loaded_token = FALSE
       THEN PauseThenExit(500)
       ELSE Goto("menu")
    /\ UNCHANGED hash_guid_entries
    /\ UNCHANGED tokenVars
    /\ UNCHANGED loopVars
    /\ UNCHANGED runVars

\* ------------------------------------------------------------------------
\* Menu and dispatch (main, lines 266-367)
\* ------------------------------------------------------------------------
\* Select::interact().unwrap() and the match on the selection; sel = -1 is
\* an I/O error of the terminal
Menu ==
    /\ pc = "menu"
    /\ \E sel \in -1..3 :
         CASE sel = -1 ->
                /\ Panic("select")
                /\ UNCHANGED <<mode, remaining, after_pause>>
           [] sel = 0 ->
                /\ mode' = "all"
                /\ remaining' = DOMAIN hash_guid_entries
                /\ Goto("all_groups")
           [] sel = 1 ->
                /\ mode' = "single"
                /\ remaining' = remaining
                /\ Goto("prompt")
           [] sel = 2 ->
                /\ mode' = "config"
                /\ remaining' = remaining
                /\ PauseThenExit(0)
           [] sel = 3 ->
                /\ mode' = "quit"
                /\ remaining' = remaining
                /\ Exit(0)
                /\ UNCHANGED after_pause
    /\ UNCHANGED <<hash_guid_entries, cur_key, idx, hash_map_key, inflight,
                   calls, out>>
    /\ UNCHANGED tokenVars
    /\ UNCHANGED runVars

\* for (key, value) in hash_guid_entries.iter(): any order; after the last
\* group, the pause() of line 367
NextGroup ==
    /\ pc = "all_groups"
    /\ IF remaining = {}
       THEN /\ PauseThenExit(0)
            /\ UNCHANGED <<remaining, cur_key, idx, out>>
       ELSE \E k \in remaining :
              /\ remaining' = remaining \ {k}
              /\ cur_key' = k
              /\ idx' = 1
              /\ out' = Append(out, Event("group", k, "", 0))
              /\ Goto("members")
    /\ UNCHANGED <<hash_guid_entries, mode, hash_map_key, inflight, calls>>
    /\ UNCHANGED tokenVars
    /\ UNCHANGED runVars

\* Input::interact_text().expect(..) and hash_guid_entries.get(&key);
\* k = -1 is an I/O error of the terminal
PromptKey ==
    /\ pc = "prompt"
    /\ \E k \in KeyInputs \cup {-1} :
         IF k = -1
         THEN /\ Panic("input")
              /\ UNCHANGED <<hash_map_key, cur_key, idx, out, after_pause>>
         ELSE LET g == get(hash_guid_entries, k)
              IN  /\ hash_map_key' = k
                  /\ IF g.some
                     THEN /\ cur_key' = k
                          /\ idx' = 1
                          /\ out' = Append(out, Event("group", k, "", 0))
                          /\ Goto("members")
                     ELSE /\ NotFoundCount < MaxPrompts
                          /\ out' = Append(out, Event("notfound", k, "", 0))
                          /\ Goto("prompt")
                          /\ UNCHANGED <<cur_key, idx>>
    /\ UNCHANGED <<hash_guid_entries, mode, remaining, inflight, calls>>
    /\ UNCHANGED tokenVars
    /\ UNCHANGED runVars

\* the value bound by the iteration (line 280) or by the match (line 315)
Reverse(q) == [i \in 1..Len(q) |-> q[Len(q) + 1 - i]]
CurValueReversed == Reverse(get(hash_guid_entries, cur_key).value)
CurValue == get(hash_guid_entries, cur_key).value

\* .send().await: main is suspended until the response is there
AfterSendNoAwait == "members"
AfterSend == "await"

\* .bearer_auth(token.access_token.clone()) (lines 76, 80)
bearer_auth_default(tok) == TokenDefault.access_token
bearer_auth(tok) == tok.access_token

\* for dataset in value: the request of send_request_update_dataset leaves
SendRefresh ==
    /\ pc = "members"
    /\ idx <= Len(CurValue)
    /\ LET req == [key |-> cur_key,
                   dataset |-> CurValue[idx],
                   access_token |-> bearer_auth(token)]
       IN  /\ calls' = Append(calls, req)
           /\ inflight' = inflight \cup {req}
    /\ Goto(AfterSend)
    /\ UNCHANGED <<hash_guid_entries, mode, remaining, cur_key, idx,
                   hash_map_key, out>>
    /\ UNCHANGED tokenVars
    /\ UNCHANGED runVars

\* where main goes when the member loop ends: the next group (line 302) or,
\* after the break of line 336, the pause() of line 367
AfterMembersNoBreak(m) == IF m = "all" THEN "all_groups" ELSE "prompt"
AfterMembersStop(m) == "pause"
AfterMembers(m) == IF m = "all" THEN "all_groups" ELSE "pause"

LoopEnd ==
    /\ pc = "members"
    /\ idx > Len(CurValue)
    /\ pc' = AfterMembers(mode)
    /\ after_pause' = 0
    /\ UNCHANGED <<exit_code, crash>>
    /\ UNCHANGED hash_guid_entries
    /\ UNCHANGED loopVars
    /\ UNCHANGED tokenVars
    /\ UNCHANGED runVars

\* the response arrives: .expect(..), then Ok(status) / Err(status), then
\* the match that prints "Aceita" or "Negada"
RefreshResponse ==
    /\ pc = "await"
    /\ \E resp \in RefreshResponses :
         LET r == send_request_update_dataset(resp)
             d == CurValue[idx]
         IN  IF r.kind = "panic"
             THEN /\ Panic("refresh_send")
                  /\ UNCHANGED <<idx, out, after_pause>>
             ELSE /\ out' = Append(out, Event(r.kind, cur_key, d, r.status))
                  /\ idx' = idx + 1
                  /\ Goto("members")
    /\ inflight' = {}
    /\ UNCHANGED <<hash_guid_entries, mode, remaining, cur_key, hash_map_key,
                   calls>>
    /\ UNCHANGED tokenVars
    /\ UNCHANGED runVars

\* pause(): read_line(..).expect(..), then the pending exit
Pause ==
    /\ pc = "pause"
    /\ \E ok \in BOOLEAN :
         IF ok THEN Exit(after_pause) ELSE Panic("pause")
    /\ UNCHANGED after_pause
    /\ UNCHANGED hash_guid_entries
    /\ UNCHANGED loopVars
    /\ UNCHANGED tokenVars
    /\ UNCHANGED runVars

Next ==
    \/ ReadToken
    \/ ValidateCached
    \/ DecideAcquire
    \/ AcquireResponse
    \/ CheckLoaded
    \/ Menu
    \/ NextGroup
    \/ PromptKey
    \/ SendRefresh
    \/ LoopEnd
    \/ RefreshResponse
    \/ Pause

Spec == Init /\ [][Next]_vars

\* ------------------------------------------------------------------------
\* The program is started a second time
\* ------------------------------------------------------------------------
\* a new process in the same directory once a run that used the cached
\* token has ended: main's locals are fresh, the .token file and
\* dataset.json are what the first run left, the clock has not gone back
Rerun ==
    /\ pc \in {"exited", "panicked"}
    /\ validated = "true"
    /\ prev.runs = 0
    /\ prev' = [runs |-> prev.runs + 1, hit |-> validated = "true",
                token |-> token, file |-> startFile]
    /\ pc' = "read_token"
    /\ startFile' = tokenFile
    /\ cached' = None
    /\ validated' = "none"
    /\ token' = TokenDefault
    /\ is_loaded_token' = FALSE
    /\ acquired' = NoAcquire
    /\ acq_resp' = NoResponse
    /\ mode' = "none"
    /\ remaining' = {}
    /\ cur_key' = -1
    /\ idx' = 0
    /\ hash_map_key' = -1
    /\ inflight' = {}
    /\ calls' = <<>>
    /\ out' = <<>>
    /\ after_pause' = 0
    /\ exit_code' = -1
    /\ crash' = "none"
    /\ acquirerCalls' = 0
    /\ cacheReads' = 0
    /\ cacheWrites' = 0
    /\ UNCHANGED <<hash_guid_entries, tokenFile, now, config, cfg_pos>>

NextRerun == Next \/ Rerun

SpecRerun == Init /\ [][NextRerun]_vars

\* ------------------------------------------------------------------------
\* The fold of dataset.json into the registry (main, lines 213-221)
\* ------------------------------------------------------------------------
\* .token files of the runs that start at the fold
FoldFiles == {FileAbsent, FileText(to_string(MkToken("Bearer", <<"1", "1">>, "cached")))}

\* main at line 213: the map is empty, the loop of line 219 is at the first
\* entry; the entry list is kept as the record of what was loaded
InitFold ==
    /\ pc = "fold"
    /\ config \in Configs
    /\ cfg_pos = 1
    /\ hash_guid_entries = EmptyMap
    /\ tokenFile \in FoldFiles
    /\ InitLocals

\* hash_guid_entries.insert(config.id, config.guid)
InsertEntry ==
    /\ pc = "fold"
    /\ cfg_pos <= Len(config)
    /\ hash_guid_entries' = insert(hash_guid_entries, config[cfg_pos])
    /\ cfg_pos' = cfg_pos + 1
    /\ Goto("fold")
    /\ UNCHANGED <<config, prev>>
    /\ UNCHANGED tokenVars
    /\ UNCHANGED loopVars

\* the loop of line 219 ends; lines 223-224
FoldDone ==
    /\ pc = "fold"
    /\ cfg_pos > Len(config)
    /\ Goto("read_token")
    /\ UNCHANGED hash_guid_entries
    /\ UNCHANGED runVars
    /\ UNCHANGED tokenVars
    /\ UNCHANGED loopVars

NextFold == InsertEntry \/ FoldDone \/ Next

SpecFold == InitFold /\ [][NextFold]_vars

\* main is one task: it keeps running except while it awaits a response or
\* the terminal; every request is answered and ENTER is pressed at pause()
DispatchFairness ==
    /\ WF_vars(NextGroup)
    /\ WF_vars(SendRefresh)
    /\ WF_vars(LoopEnd)
    /\ WF_vars(RefreshResponse)
    /\ WF_vars(Pause)

SpecLive == SpecFold /\ DispatchFairness

\* ------------------------------------------------------------------------
\* Properties
\* ------------------------------------------------------------------------
Ended == pc \in {"exited", "panicked"}

\* the outcomes printed, in order
Outcomes == SelectSeq(out, LAMBDA e : e.ev \in {"ok", "err"})

\* the datasets requested for group k, in order
CallsFor(k) ==
    LET cs == SelectSeq(calls, LAMBDA c : c.key = k)
    IN  [i \in 1..Len(cs) |-> cs[i].dataset]

\* the text of expires_on as validate_token parses it
ExpiresParse(tok) == ParseI64(Trim(tok.expires_on))

\* the load of the .token file fails: no file, no read, no Token Record
LoadFails(file) ==
    \/ file.kind \in {"absent", "unreadable"}
    \/ ~from_str_option(file.json).ok

\* C1: when validate_token returned true for the cached record, main's token
\* is that record and no exchange with the identity endpoint has been or
\* will be started in the run.
CacheHitShortCircuit ==
    validated = "true" =>
        /\ cached.some
        /\ is_loaded_token
        /\ token = cached.rec
        /\ acquirerCalls = 0
        /\ acquired = NoAcquire
        /\ pc # "acquiring"

CacheHitWitness ==
    /\ validated = "true"
    /\ pc = "exited"
    /\ Len(calls) > 0
    /\ acquirerCalls = 0

\* C2: after acquire_new_token returned Ok(record), main's token is that
\* record, every refresh request carries its access_token, and once
\* export_token has returned, reading the .token file yields exactly that
\* record, whatever the file held before.
FreshAcquisitionPersisted ==
    acquired.kind = "ok" =>
        /\ ~cached.some \/ validated = "false"
        /\ token = acquired.rec
        /\ \A i \in 1..Len(calls) : calls[i].access_token = acquired.rec.access_token
        /\ crash \notin {"export_create", "export_write"} =>
              /\ read_token_file(tokenFile) = Some(acquired.rec)
              /\ tokenFile = FileText(to_string(acquired.rec))

FreshAcquisitionWitness ==
    /\ acquired.kind = "ok"
    /\ cached.some
    /\ validated = "false"
    /\ startFile # tokenFile
    /\ read_token_file(tokenFile) = Some(acquired.rec)
    /\ Len(calls) > 0
    /\ pc = "exited"

\* C3: after acquire_new_token returned Err, main only pauses and exits: the
\* exit status is not zero, the .token file was never created or written and
\* is what it was at start, and no refresh request is ever sent.
AcquireFailureTerminal ==
    acquired.kind = "err" =>
        /\ pc \in {"pause", "exited", "panicked"}
        /\ Ended => exit_code \notin {-1, 0}
        /\ pc = "exited" => exit_code = 1
        /\ cacheWrites = 0
        /\ tokenFile = startFile
        /\ calls = <<>>
        /\ inflight = {}
        /\ mode = "none"

AcquireFailureWitness ==
    /\ acquired.kind = "err"
    /\ pc = "exited"
    /\ exit_code = 1
    /\ startFile.kind = "text"

\* C4: a run that chose "Todas empresas" and has ended has sent, for every
\* group of the registry, exactly the requests for its members, and printed
\* one outcome per request, whatever the endpoint answered.
AllGroupsOneCallPerMember ==
    (mode = "all" /\ Ended) =>
        /\ \A k \in DOMAIN hash_guid_entries : CallsFor(k) = hash_guid_entries[k]
        /\ \A i \in 1..Len(calls) : calls[i].key \in DOMAIN hash_guid_entries
        /\ Len(Outcomes) = Len(calls)

\* C5: every answered refresh request has an outcome: Success for a
\* success-class response and Failure for everything else, a failure of the
\* transport included; no answer ends the run.
RefreshClassifiesEveryResult ==
    /\ crash # "refresh_send"
    /\ pc # "await" => Len(Outcomes) = Len(calls)
    /\ \A i \in 1..Len(Outcomes) :
          (Outcomes[i].ev = "ok") <=> is_success(Outcomes[i].status)

\* C6: a step that reads a key absent from the registry prints "not found",
\* returns to the prompt, sends nothing, and leaves the registry, the token,
\* the .token file and the process status as they were.
NotFoundRecoverable ==
    [][(/\ pc = "prompt"
        /\ pc' # "panicked"
        /\ hash_map_key' \notin DOMAIN hash_guid_entries)
       => /\ pc' = "prompt"
          /\ out' = Append(out, Event("notfound", hash_map_key', "", 0))
          /\ calls' = calls
          /\ inflight' = inflight
          /\ exit_code' = -1
          /\ UNCHANGED <<hash_guid_entries, token, tokenFile, exit_code, crash,
                         cacheWrites, acquirerCalls>>]_vars

NotFoundWitness ==
    /\ mode = "single"
    /\ NotFoundCount >= 2
    /\ calls = <<>>
    /\ pc = "prompt"

ValidatorMatchesReference ==
    (validated # "none" /\ ExpiresParse(cached.rec).ok) =>
        validated = (IF NumLess(now, ExpiresParse(cached.rec).val)
                     THEN "true" ELSE "false")

\* C9: for a record whose expires_on does not parse as an integer,
\* validate_token returns false, the record is not used, and main goes on to
\* the exchange with the identity endpoint.
ValidatorFailsClosed ==
    (validated # "none" /\ ~ExpiresParse(cached.rec).ok) =>
        /\ validated = "false"
        /\ token # cached.rec
        /\ pc # "need_token" => acquirerCalls = 1
        /\ pc = "need_token" => ~is_loaded_token

ValidatorFailsClosedWitness ==
    /\ validated = "false"
    /\ cached.rec.expires_on = CharsOf(I64MinMag)
    /\ ~ExpiresParse(cached.rec).ok
    /\ acquired.kind = "ok"
    /\ pc = "menu"

\* C10: when the .token file is absent, unreadable or not a Token Record,
\* read_token_file returns None, the run goes on, nothing is validated, and
\* the exchange with the identity endpoint is started before anything else.
CacheLoadFailureIsMiss ==
    (cacheReads > 0 /\ LoadFails(startFile)) =>
        /\ cached = None
        /\ validated = "none"
        /\ pc = "need_token" \/ acquirerCalls = 1
        /\ pc = "need_token" => (~is_loaded_token /\ ~Ended)
        /\ Ended => acquired.kind # "none"

CacheLoadFailureWitness ==
    /\ startFile.kind = "unreadable"
    /\ cached = None
    /\ acquired.kind = "ok"
    /\ pc = "menu"

\* the identity endpoint has answered, or the exchange has failed
AcquirerAnswered == acquirerCalls = 1 /\ pc # "acquiring"

\* the exchange succeeded: a success-class response whose payload is a
\* Token Record
GoodExchange(resp) ==
    /\ resp.sent
    /\ is_success(resp.status)
    /\ resp.readable
    /\ from_str_token(resp.json).ok

\* C11: a run that ends with a non-zero status or a crash has called the
\* Acquirer and received a failure from it; nothing else ends a run
\* abnormally.
OnlyAcquirerFailureIsFatal ==
    (Ended /\ exit_code # 0) =>
        /\ acquirerCalls = 1
        /\ acquired.kind = "err"

\* C12: acquire_new_token returns Ok(record) for a success response whose
\* payload is a Token Record and a failure result for every other exchange,
\* carrying the body when the response is not a success; the failure is
\* handled by main's Err arm.
AcquirerFailureIsResult ==
    AcquirerAnswered =>
        IF GoodExchange(acq_resp)
        THEN /\ acquired.kind = "ok"
             /\ acquired.rec = from_str_token(acq_resp.json).rec
        ELSE /\ acquired.kind = "err"
             /\ (acq_resp.sent /\ ~is_success(acq_resp.status)) =>
                    acquired.text = acq_resp.json
             /\ token = TokenDefault
             /\ pc \in {"pause", "exited"} \/ crash = "pause"

IsPrefix(p, q) ==
    /\ Len(p) <= Len(q)
    /\ \A i \in 1..Len(p) : p[i] = q[i]

\* the key of the last group header printed before position i of out
HeaderBefore(i) ==
    LET hs == {j \in 1..(i - 1) : out[j].ev = "group"}
    IN  IF hs = {} THEN -1
        ELSE out[CHOOSE j \in hs : \A l \in hs : l <= j].key

\* C13: in both modes the i-th outcome printed is for the i-th request sent;
\* the requests of a group are its members in stored order; a request for
\* another group is sent only when every member of the previous group has
\* been requested and its outcome printed.
OrderWithinGroup ==
    /\ Len(Outcomes) <= Len(calls)
    /\ Len(calls) <= Len(Outcomes) + 1
    /\ \A i \in 1..Len(Outcomes) :
          /\ Outcomes[i].key = calls[i].key
          /\ Outcomes[i].dataset = calls[i].dataset
    /\ \A k \in DOMAIN hash_guid_entries : IsPrefix(CallsFor(k), hash_guid_entries[k])
    /\ \A i \in 1..Len(out) :
          out[i].ev \in {"ok", "err"} => out[i].key = HeaderBefore(i)
    /\ \A j \in 2..Len(calls) :
          calls[j].key # calls[j - 1].key =>
              /\ CallsFor(calls[j - 1].key) = hash_guid_entries[calls[j - 1].key]
              /\ \A l \in j..Len(calls) : calls[l].key # calls[j - 1].key

OrderWitness ==
    /\ mode = "all"
    /\ pc = "exited"
    /\ Len(Outcomes) = 3
    /\ Outcomes[1].ev = "err"
    /\ Outcomes[1].dataset = "a"
    /\ Outcomes[2].dataset = "b"
    /\ Outcomes[3].dataset = "c"

\* C14: at most one refresh request is in flight, main waits while it is,
\* and a request is sent only when every earlier request has been answered
\* and its outcome printed.
StrictlySequential ==
    /\ [](/\ Cardinality(inflight) <= 1
          /\ inflight # {} <=> pc = "await"
          /\ crash # "refresh_send" =>
                Len(calls) = Len(Outcomes) + Cardinality(inflight))
    /\ [][calls' # calls =>
            /\ inflight = {}
            /\ Len(Outcomes) = Len(calls)
            /\ Len(calls') = Len(calls) + 1]_vars

SequentialWitness ==
    /\ pc = "await"
    /\ Cardinality(inflight) = 1
    /\ Len(calls) = 3
    /\ Len(Outcomes) = 2

TokenPhase == pc \in {"read_token", "validate", "need_token", "acquiring"}

\* C15: the .token file is read once, as the first step and so before any
\* exchange with the identity endpoint; it is created at most once, in the
\* step in which acquire_new_token returned Ok, and so never after a cache
\* hit, never after a failed acquisition and never during dispatch.
CacheReadOnceWrittenAtMostOnce ==
    /\ [](/\ cacheReads = (IF pc = "read_token" THEN 0 ELSE 1)
          /\ acquirerCalls > 0 => cacheReads = 1
          /\ cacheWrites <= 1
          /\ cacheWrites = 1 <=> acquired.kind = "ok"
          /\ cacheWrites = 0 => tokenFile = startFile
          /\ validated = "true" => cacheWrites = 0)
    /\ [][(tokenFile' # tokenFile \/ cacheWrites' # cacheWrites) =>
            /\ pc = "acquiring"
            /\ acquired'.kind = "ok"
            /\ cacheWrites' = cacheWrites + 1]_vars

CacheWriteWitness ==
    /\ startFile.kind = "absent"
    /\ tokenFile.kind = "text"
    /\ cacheReads = 1
    /\ cacheWrites = 1
    /\ Len(calls) > 0
    /\ pc = "exited"

\* C17: once the token phase is over main's token never changes, and every
\* refresh request carries the access_token of that token.
TokenFixedForDispatch ==
    /\ [](\A i \in 1..Len(calls) : calls[i].access_token = token.access_token)
    /\ [][~TokenPhase => token' = token]_vars

TokenFixedWitness ==
    /\ Len(calls) = 2
    /\ calls[1].access_token = "cached"
    /\ calls[2].access_token = "cached"
    /\ token.access_token = "cached"
    /\ pc = "members"

\* C20: a refresh request is sent only after the token phase, with a token
\* that is the cached record validate_token accepted in this run or the
\* record acquire_new_token returned in this run (written to .token, never
\* validated); the identity endpoint is called at most once; line 260 always
\* finds is_loaded_token true, so exit(500) is never reached.
TokenProvenance ==
    /\ acquirerCalls <= 1
    /\ exit_code # 500
    /\ after_pause # 500
    /\ pc = "check_loaded" => is_loaded_token
    /\ calls # <<>> =>
          /\ ~TokenPhase
          /\ is_loaded_token
          /\ \A i \in 1..Len(calls) : calls[i].access_token = token.access_token
          /\ \/ /\ validated = "true"
                /\ cached.some
                /\ token = cached.rec
                /\ acquirerCalls = 0
             \/ /\ validated # "true"
                /\ acquired.kind = "ok"
                /\ token = acquired.rec
                /\ read_token_file(tokenFile) = Some(token)

TokenProvenanceWitness ==
    /\ acquired.kind = "ok"
    /\ token.expires_on = <<>>
    /\ validate_token(token, NumOfNat(0)) = "false"
    /\ Len(calls) > 0
    /\ calls[1].access_token = "fresh2"
    /\ pc = "exited"

\* C16: when the program is run twice and validate_token accepts the cached
\* record in both runs, the second run's token equals the first run's in all
\* three fields and the .token file is what it was before the first run.
CacheHitIdempotent ==
    (prev.runs = 1 /\ prev.hit /\ validated = "true") =>
        /\ token.token_type = prev.token.token_type
        /\ token.expires_on = prev.token.expires_on
        /\ token.access_token = prev.token.access_token
        /\ tokenFile = prev.file
        /\ startFile = prev.file

CacheHitIdempotentWitness ==
    /\ prev.runs = 1
    /\ prev.hit
    /\ validated = "true"
    /\ token.access_token = "cached"
    /\ now = NumOfNat(1790000000)
    /\ pc = "exited"

\* the entries the loop of line 219 has inserted
Inserted == IF pc = "fold" THEN cfg_pos - 1 ELSE Len(config)

\* the last of the first n entries that carries id k
LastRecord(k, n) ==
    config[CHOOSE i \in 1..n :
              /\ config[i].id = k
              /\ \A j \in (i + 1)..n : config[j].id # k]

\* C19: the registry holds one group per id of the loaded entries, with the
\* members of the last entry that carries the id; a dispatch requests only
\* members of that last entry, in its order, never those of an earlier entry
\* with the same id.
RegistryLastWriteWins ==
    /\ DOMAIN hash_guid_entries = {config[i].id : i \in 1..Inserted}
    /\ \A k \in DOMAIN hash_guid_entries :
          /\ hash_guid_entries[k] = LastRecord(k, Inserted).guid
          /\ IsPrefix(CallsFor(k), LastRecord(k, Inserted).guid)
    /\ \A i \in 1..Len(calls) : calls[i].key \in DOMAIN hash_guid_entries

RegistryWitness ==
    /\ config = <<[id |-> 1, guid |-> <<"a", "b">>], [id |-> 1, guid |-> <<"c">>]>>
    /\ mode = "all"
    /\ pc = "exited"
    /\ Len(calls) = 1
    /\ calls[1].dataset = "c"

\* a batch dispatch has begun: "Todas empresas" was chosen, or a key that is
\* in the registry was typed
DispatchBegun ==
    \/ mode = "all"
    \/ mode = "single" /\ cur_key # -1

\* every member to be visited has been requested and its outcome printed
AllVisited ==
    /\ Len(Outcomes) = Len(calls)
    /\ mode = "all" =>
          \A k \in DOMAIN hash_guid_entries : CallsFor(k) = hash_guid_entries[k]
    /\ mode = "single" =>
          /\ hash_map_key \in DOMAIN hash_guid_entries
          /\ CallsFor(hash_map_key) = hash_guid_entries[hash_map_key]

====
